---- MODULE Spec2Model ----
(***************************************************************************)
(* The refresh pipeline of the country/currency service: the background    *)
(* refresh job (main.py), the repository it writes through (crud.py), the  *)
(* transform helpers (utils.py), the countries table (models.py) and the   *)
(* summary image renderer (image.py).                                      *)
(*                                                                         *)
(* Python values are tagged records, so that the dynamically typed cases   *)
(* of the code (a population that is a string, a currency entry that is    *)
(* not a dict, ...) are values of the model.                               *)
(***************************************************************************)
EXTENDS Integers, Sequences, FiniteSets, TLC

(* ------------------------------ bounds -------------------------------- *)
\* Worker slots that can run background_refresh_countries at the same time.
NumRuns == 2
\* Longest list fetch_countries returns.
MaxItems == 2
\* The clock stops here: at most MaxClock calls of create_or_update_country.
MaxClock == 4
\* random.randint(1000, 2000) is sampled at MultSamples + 1 evenly spaced points.
MultSamples == 1

(* ------------------------- program constants -------------------------- *)
MinMultiplier == 1000
MaxMultiplier == 2000
TopN == 5

(* --------------------------- Python values ---------------------------- *)
PyNone == [t |-> "None"]
PyInt(n) == [t |-> "int", v |-> n]
PyStr(s) == [t |-> "str", v |-> s]
\* A float is kept exactly, as the fraction num / den with den > 0.
PyFloat(n, d) == [t |-> "float", num |-> n, den |-> d]
PyList(s) == [t |-> "list", v |-> s]
\* A currency object of the countries API: {"code": c} ({} when c is PyNone).
PyCurrency(c) == [t |-> "dict", code |-> c]

\* Python truthiness (`not x` is ~Truthy(x)).
Truthy(x) ==
    CASE x.t = "None" -> FALSE
      [] x.t = "int" -> x.v # 0
      [] x.t = "str" -> x.v # ""
      [] x.t = "list" -> x.v # <<>>
      [] x.t = "float" -> x.num # 0
      [] OTHER -> TRUE

\* str.lower() / SQL lower() on the names the model uses.
Lower(s) ==
    CASE s = "France" -> "france"
      [] s = "FRANCE" -> "france"
      [] s = "Peru" -> "peru"
      [] s = "PERU" -> "peru"
      [] OTHER -> s

\* float(x) for an int or a float.
FloatOf(x) == IF x.t = "int" THEN PyFloat(x.v, 1) ELSE x

FloatEq(a, b) == a.num * b.den = b.num * a.den
FloatLess(a, b) == a.num * b.den < b.num * a.den

(* ------------------------------ utils.py ------------------------------ *)
Multipliers ==
    { MinMultiplier + (k * (MaxMultiplier - MinMultiplier)) \div MultSamples :
        k \in 0..MultSamples }

\* A faulty compute_estimated_gdp: the product is multiplied by the rate
\* instead of divided by it.
compute_estimated_gdp_times(population, exchange_rate, m) ==
    IF exchange_rate.t = "None" THEN [raised |-> FALSE, value |-> PyNone]
    ELSE IF population.t # "int" THEN [raised |-> TRUE, exc |-> "TypeError"]
    ELSE LET rate == FloatOf(exchange_rate) IN
         IF rate.num = 0 THEN [raised |-> TRUE, exc |-> "ZeroDivisionError"]
         ELSE [raised |-> FALSE,
               value |-> PyFloat(population.v * m * rate.num, rate.den)]

\* compute_estimated_gdp(population, exchange_rate) with multiplier m drawn by
\* random.randint: (population * m) / exchange_rate.  A str population makes
\* str * int a str, and str / float raises TypeError.
compute_estimated_gdp(population, exchange_rate, m) ==
    IF exchange_rate.t = "None" THEN [raised |-> FALSE, value |-> PyNone]
    ELSE IF population.t # "int" THEN [raised |-> TRUE, exc |-> "TypeError"]
    ELSE LET rate == FloatOf(exchange_rate) IN
         IF rate.num = 0 THEN [raised |-> TRUE, exc |-> "ZeroDivisionError"]
         ELSE [raised |-> FALSE,
               value |-> PyFloat(population.v * m * rate.den, rate.num)]

\* extract_currency_code(country_item): first.get("code") raises AttributeError
\* when the first entry is not a dict.
extract_currency_code(item) ==
    LET currs == item.currencies IN
    IF ~Truthy(currs) \/ currs.t # "list" \/ Len(currs.v) = 0
    THEN [raised |-> FALSE, value |-> PyNone]
    ELSE LET first == currs.v[1] IN
         IF first.t # "dict" THEN [raised |-> TRUE, exc |-> "AttributeError"]
         ELSE [raised |-> FALSE, value |-> first.code]

\* exchange_rates.get(code)
RateOf(rates, code) ==
    IF code.t = "str" /\ code.v \in DOMAIN rates THEN rates[code.v] ELSE PyNone

\* int(population): ValueError on a str that is no integer literal.
IntOf(x) ==
    IF x.t = "int" THEN [raised |-> FALSE, value |-> x]
    ELSE [raised |-> TRUE, exc |-> "ValueError"]

(* ------------------ main.py: the body of the for loop ----------------- *)
\* A faulty Skipped: `if not name or not population`, which also skips
\* population 0.
SkippedFalsy(item) == ~Truthy(item.name) \/ ~Truthy(item.population)

\* Line 78: `if not name or population is None: continue`.
Skipped(item) == ~Truthy(item.name) \/ item.population.t = "None"

\* A faulty Derive: a record without a currency code gets no estimated GDP.
DeriveNullGdp(item, rates, m) ==
    LET cc == extract_currency_code(item) IN
    IF cc.raised THEN cc
    ELSE IF cc.value.t = "None"
    THEN [raised |-> FALSE, currency_code |-> PyNone,
          exchange_rate |-> PyNone, estimated_gdp |-> PyNone]
    ELSE LET rate == RateOf(rates, cc.value)
             gdp == compute_estimated_gdp(item.population, rate, m)
         IN IF gdp.raised THEN gdp
            ELSE [raised |-> FALSE, currency_code |-> cc.value,
                  exchange_rate |-> rate, estimated_gdp |-> gdp.value]

\* Lines 81-91: the currency code, the rate and the estimated GDP of a record.
Derive(item, rates, m) ==
    LET cc == extract_currency_code(item) IN
    IF cc.raised THEN cc
    ELSE IF cc.value.t = "None"
    THEN [raised |-> FALSE, currency_code |-> PyNone,
          exchange_rate |-> PyNone, estimated_gdp |-> PyInt(0)]
    ELSE LET rate == RateOf(rates, cc.value)
             gdp == compute_estimated_gdp(item.population, rate, m)
         IN IF gdp.raised THEN gdp
            ELSE [raised |-> FALSE, currency_code |-> cc.value,
                  exchange_rate |-> rate, estimated_gdp |-> gdp.value]

\* Lines 93-109: the payload handed to create_or_update_country.  Its
\* last_refreshed_at string is left out: crud.py lines 39 and 45 replace it
\* by `now` on both paths.
BuildPayload(item, rates, m) ==
    LET d == Derive(item, rates, m) IN
    IF d.raised THEN d
    ELSE LET pop == IntOf(item.population) IN
         IF pop.raised THEN pop
         ELSE [raised |-> FALSE,
               payload |->
                 [name |-> item.name,
                  capital |-> item.capital,
                  population |-> pop.value,
                  currency_code |-> d.currency_code,
                  exchange_rate |-> IF d.exchange_rate.t # "None"
                                    THEN FloatOf(d.exchange_rate) ELSE PyNone,
                  estimated_gdp |-> IF d.estimated_gdp.t # "None"
                                    THEN FloatOf(d.estimated_gdp) ELSE PyNone]]

(* ------------------------- inputs of the model ------------------------ *)
Raw(name, population, capital, currencies) ==
    [name |-> name, population |-> population, capital |-> capital,
     currencies |-> currencies]

EUR == PyList(<<PyCurrency(PyStr("EUR"))>>)
XYZ == PyList(<<PyCurrency(PyStr("XYZ"))>>)

\* Raw records fetch_countries can return (item.get gives None for a missing
\* key, so a missing field is PyNone).
RawItems ==
    { Raw(PyStr("France"), PyInt(3), PyStr("Paris"), EUR),
      Raw(PyStr("france"), PyInt(0), PyNone, EUR),
      Raw(PyStr("france"), PyInt(3), PyStr("Paris"), XYZ),
      Raw(PyStr("Peru"), PyInt(3), PyStr("Lima"), PyNone),
      Raw(PyStr("Peru"), PyInt(0), PyNone, PyList(<<>>)),
      Raw(PyStr("Peru"), PyInt(3), PyStr("Lima"), PyList(<<PyCurrency(PyNone)>>)),
      Raw(PyStr("Peru"), PyInt(3), PyStr("Lima"), PyStr("EUR")),
      Raw(PyNone, PyInt(3), PyStr("Lima"), EUR),
      Raw(PyStr(""), PyInt(3), PyStr("Lima"), EUR),
      Raw(PyStr("Peru"), PyNone, PyStr("Lima"), EUR),
      Raw(PyStr("Peru"), PyStr("many"), PyStr("Lima"), EUR),
      Raw(PyStr("Peru"), PyInt(3), PyStr("Lima"), PyList(<<PyStr("EUR")>>)) }

\* The lists fetch_countries can return.
FetchedLists == UNION { [1..n -> RawItems] : n \in 0..MaxItems }

\* The tables fetch_exchange_rates can return ("XYZ" is in none of them).
RateTables ==
    { [c \in {} |-> PyNone],
      [c \in {"EUR"} |-> PyInt(2)],
      [c \in {"EUR"} |-> PyFloat(0, 1)] }

\* The inputs of the concurrent specification: lists of at most one record,
\* named France in either case and with currency EUR, and the tables with a
\* usable EUR rate.
ConcItems ==
    { it \in RawItems :
        it.name.t = "str" /\ Lower(it.name.v) = "france" /\ it.currencies = EUR }

ConcLists == { <<>> } \cup { <<it>> : it \in ConcItems }

ConcTables == { t \in RateTables : "EUR" \in DOMAIN t /\ Truthy(t["EUR"]) }

\* Names a DELETE /countries/{name} request can carry.
DeleteNames == {"france", "PERU"}

(* ------------------------------- state -------------------------------- *)
Runs == 1..NumRuns

VARIABLES
    rows,            \* the countries table: a set of row records
    nextId,          \* the table's AUTO_INCREMENT counter
    collation,       \* how the store compares names in the UNIQUE index
    clock,           \* datetime.now(UTC)
    image,           \* cache/summary.png
    pc,              \* where each background_refresh_countries run stands
    countries_data,  \* per run: the fetched list
    exchange_rates,  \* per run: the fetched rate table
    idx,             \* per run: position of the for loop in countries_data
    payload,         \* per run: the payload built for the current record
    now,             \* per run: `now` of create_or_update_country
    existing,        \* per run: id of the row get_country_by_name found, 0 if none
    saved,           \* per run: ids of the objects appended to `saved`
    exc,             \* per run: the exception caught at line 117, "" if none
    before           \* per run: the table when the run began (history variable)

vars == <<rows, nextId, collation, clock, image, pc, countries_data,
          exchange_rates, idx, payload, now, existing, saved, exc, before>>

locals == <<countries_data, exchange_rates, idx, payload, now, existing, saved,
            exc, before>>

NoImage == [exists |-> FALSE]
NoRates == [c \in {} |-> PyNone]

Init ==
    /\ rows = {}
    /\ nextId = 1
    /\ collation \in {"ci", "cs"}
    /\ clock = 1
    /\ image = NoImage
    /\ pc = [r \in Runs |-> "idle"]
    /\ countries_data = [r \in Runs |-> <<>>]
    /\ exchange_rates = [r \in Runs |-> NoRates]
    /\ idx = [r \in Runs |-> 0]
    /\ payload = [r \in Runs |-> PyNone]
    /\ now = [r \in Runs |-> 0]
    /\ existing = [r \in Runs |-> 0]
    /\ saved = [r \in Runs |-> <<>>]
    /\ exc = [r \in Runs |-> ""]
    /\ before = [r \in Runs |-> {}]

(* ------------------------ models.py and crud.py ----------------------- *)
\* Country.name is UNIQUE: the key the index compares, which is the name
\* itself under a case-sensitive collation and its folded form otherwise.
UniqueKey(name) == IF collation = "ci" THEN Lower(name.v) ELSE name.v

\* A faulty Matching: the lookup compares the names as they are.
MatchingExact(name) == { c \in rows : c.name.v = name.v }

\* get_country_by_name: the rows with lower(name) = name.lower(); .first()
\* returns one of them.
Matching(name) == { c \in rows : Lower(c.name.v) = Lower(name.v) }

RowOf(id) == CHOOSE c \in rows : c.id = id

\* crud.py lines 45-46: the row models.Country(**country_data) inserts at time t.
RowFrom(id, country_data, t) ==
    [id |-> id,
     name |-> country_data.name,
     capital |-> country_data.capital,
     population |-> country_data.population,
     currency_code |-> country_data.currency_code,
     exchange_rate |-> country_data.exchange_rate,
     estimated_gdp |-> country_data.estimated_gdp,
     last_refreshed_at |-> t]

\* A faulty UpdatedRow: a None of country_data does not overwrite what the
\* row holds.
UpdatedRowKeepNulls(old, country_data, t) ==
    [old EXCEPT !.name = country_data.name,
                !.capital = country_data.capital,
                !.population = country_data.population,
                !.currency_code = country_data.currency_code,
                !.exchange_rate = IF country_data.exchange_rate = PyNone
                                  THEN @ ELSE country_data.exchange_rate,
                !.estimated_gdp = IF country_data.estimated_gdp = PyNone
                                  THEN @ ELSE country_data.estimated_gdp,
                !.last_refreshed_at = t]

\* A faulty UpdatedRow: the update leaves last_refreshed_at as it was.
UpdatedRowStaleTime(old, country_data, t) ==
    [old EXCEPT !.name = country_data.name,
                !.capital = country_data.capital,
                !.population = country_data.population,
                !.currency_code = country_data.currency_code,
                !.exchange_rate = country_data.exchange_rate,
                !.estimated_gdp = country_data.estimated_gdp]

\* crud.py lines 37-39: every key of country_data is set on the row found,
\* then last_refreshed_at; the id stays.
UpdatedRow(old, country_data, t) ==
    [old EXCEPT !.name = country_data.name,
                !.capital = country_data.capital,
                !.population = country_data.population,
                !.currency_code = country_data.currency_code,
                !.exchange_rate = country_data.exchange_rate,
                !.estimated_gdp = country_data.estimated_gdp,
                !.last_refreshed_at = t]

\* Whether writing `name` into row `id` (0: a new row) breaks the UNIQUE index.
Duplicate(id, name) ==
    \E c \in rows : c.id # id /\ UniqueKey(c.name) = UniqueKey(name)

(* ------------------------------ image.py ------------------------------ *)
\* Where x goes in a list sorted by estimated_gdp, largest first: before the
\* first entry that is not larger, so that equal entries keep their order as
\* in Python's stable sorted(..., reverse=True).
RECURSIVE InsertDesc(_, _)
InsertDesc(x, s) ==
    IF s = <<>> THEN <<x>>
    ELSE IF FloatLess(x.estimated_gdp, Head(s).estimated_gdp)
         THEN <<Head(s)>> \o InsertDesc(x, Tail(s))
         ELSE <<x>> \o s

RECURSIVE SortedDesc(_)
SortedDesc(s) == IF s = <<>> THEN <<>> ELSE InsertDesc(Head(s), SortedDesc(Tail(s)))

\* generate_summary_image(countries): the total of the header and the ranked
\* lines, for a list of loaded rows.
SummaryOf(countries) ==
    LET ranked == SortedDesc(SelectSeq(countries, LAMBDA c : c.estimated_gdp.t # "None"))
        top_5 == SubSeq(ranked, 1, IF Len(ranked) < TopN THEN Len(ranked) ELSE TopN)
    IN [exists |-> TRUE,
        total |-> Len(countries),
        top |-> [i \in 1..Len(top_5) |->
                   [name |-> top_5[i].name, estimated_gdp |-> top_5[i].estimated_gdp]]]

(* ------------------------------ actions ------------------------------- *)
\* POST /countries/refresh: the job is queued on the lowest free worker slot.
refresh_countries(r) ==
    /\ pc[r] = "idle"
    /\ \A q \in Runs : q < r => pc[q] # "idle"
    /\ pc' = [pc EXCEPT ![r] = "queued"]
    /\ UNCHANGED <<rows, nextId, collation, clock, image, locals>>

\* A faulty FetchOf: the table is emptied before the fetches.
FetchOfClearing(r, lists, tables) ==
    /\ pc[r] = "queued"
    /\ before' = [before EXCEPT ![r] = rows]
    /\ rows' = {}
    /\ \/ /\ \E e \in {"fetch_countries", "fetch_exchange_rates"} :
                exc' = [exc EXCEPT ![r] = e]
          /\ pc' = [pc EXCEPT ![r] = "failed"]
          /\ UNCHANGED <<countries_data, exchange_rates, idx, saved>>
       \/ /\ \E l \in lists, t \in tables :
                /\ countries_data' = [countries_data EXCEPT ![r] = l]
                /\ exchange_rates' = [exchange_rates EXCEPT ![r] = t]
          /\ idx' = [idx EXCEPT ![r] = 1]
          /\ saved' = [saved EXCEPT ![r] = <<>>]
          /\ pc' = [pc EXCEPT ![r] = "loop"]
          /\ UNCHANGED exc
    /\ UNCHANGED <<nextId, collation, clock, image, payload, now, existing>>

\* Lines 62-70: the session is opened, both fetches are made, saved = [].
\* Either fetch raises on a network error, a timeout or a non-2xx status.
FetchOf(r, lists, tables) ==
    /\ pc[r] = "queued"
    /\ before' = [before EXCEPT ![r] = rows]
    /\ \/ /\ \E e \in {"fetch_countries", "fetch_exchange_rates"} :
                exc' = [exc EXCEPT ![r] = e]
          /\ pc' = [pc EXCEPT ![r] = "failed"]
          /\ UNCHANGED <<countries_data, exchange_rates, idx, saved>>
       \/ /\ \E l \in lists, t \in tables :
                /\ countries_data' = [countries_data EXCEPT ![r] = l]
                /\ exchange_rates' = [exchange_rates EXCEPT ![r] = t]
          /\ idx' = [idx EXCEPT ![r] = 1]
          /\ saved' = [saved EXCEPT ![r] = <<>>]
          /\ pc' = [pc EXCEPT ![r] = "loop"]
          /\ UNCHANGED exc
    /\ UNCHANGED <<rows, nextId, collation, clock, image, payload, now, existing>>

Fetch(r) == FetchOf(r, FetchedLists, RateTables)

\* Lines 71-109 and crud.py lines 34-35 for the record at idx: skip it, or
\* raise, or build the payload, read the clock and look the name up.
Process(r) ==
    /\ pc[r] = "loop"
    /\ idx[r] <= Len(countries_data[r])
    /\ clock < MaxClock
    /\ LET item == countries_data[r][idx[r]] IN
       IF Skipped(item)
       THEN /\ idx' = [idx EXCEPT ![r] = @ + 1]
            /\ UNCHANGED <<pc, payload, now, existing, exc, clock>>
       ELSE \E m \in Multipliers :
            LET b == BuildPayload(item, exchange_rates[r], m) IN
            IF b.raised
            THEN /\ pc' = [pc EXCEPT ![r] = "failed"]
                 /\ exc' = [exc EXCEPT ![r] = b.exc]
                 /\ UNCHANGED <<idx, payload, now, existing, clock>>
            ELSE /\ payload' = [payload EXCEPT ![r] = b.payload]
                 /\ now' = [now EXCEPT ![r] = clock]
                 /\ clock' = clock + 1
                 /\ \E e \in IF Matching(b.payload.name) = {} THEN {0}
                             ELSE { c.id : c \in Matching(b.payload.name) } :
                        existing' = [existing EXCEPT ![r] = e]
                 /\ pc' = [pc EXCEPT ![r] = "upsert"]
                 /\ UNCHANGED <<idx, exc>>
    /\ UNCHANGED <<rows, nextId, collation, image, countries_data, exchange_rates,
                   saved, before>>

\* crud.py lines 36-50 and main.py line 112: the UPDATE or INSERT, its commit,
\* and saved.append(obj).  The commit raises when the row found was deleted
\* meanwhile or when the UNIQUE index on name refuses the write.
Upsert(r) ==
    /\ pc[r] = "upsert"
    /\ LET missing == existing[r] # 0 /\ ~(\E c \in rows : c.id = existing[r])
           id == IF existing[r] # 0 THEN existing[r] ELSE nextId
       IN
       IF missing \/ Duplicate(existing[r], payload[r].name)
       THEN /\ pc' = [pc EXCEPT ![r] = "failed"]
            /\ exc' = [exc EXCEPT ![r] = IF missing THEN "StaleDataError"
                                         ELSE "IntegrityError"]
            /\ UNCHANGED <<rows, nextId, idx, saved>>
       ELSE /\ rows' = IF existing[r] # 0
                      THEN (rows \ {RowOf(id)})
                               \cup {UpdatedRow(RowOf(id), payload[r], now[r])}
                      ELSE rows \cup {RowFrom(id, payload[r], now[r])}
            /\ nextId' = IF existing[r] # 0 THEN nextId ELSE nextId + 1
            /\ saved' = [saved EXCEPT ![r] = Append(@, id)]
            /\ idx' = [idx EXCEPT ![r] = @ + 1]
            /\ pc' = [pc EXCEPT ![r] = "loop"]
            /\ UNCHANGED exc
    /\ UNCHANGED <<collation, clock, image, countries_data, exchange_rates, payload,
                   now, existing, before>>

\* Lines 114-116: after the loop, generate_summary_image(saved).  The objects
\* in saved are reloaded from the table; when one of them was deleted the
\* renderer catches the error and leaves the file as it was.
Render(r) ==
    /\ pc[r] = "loop"
    /\ idx[r] > Len(countries_data[r])
    /\ image' = IF \A i \in 1..Len(saved[r]) : \E c \in rows : c.id = saved[r][i]
                THEN SummaryOf([i \in 1..Len(saved[r]) |-> RowOf(saved[r][i])])
                ELSE image
    /\ pc' = [pc EXCEPT ![r] = "done"]
    /\ UNCHANGED <<rows, nextId, collation, clock, locals>>

\* Line 120: db.close(); the job is over and its slot is free again.
Close(r) ==
    /\ pc[r] \in {"done", "failed"}
    /\ pc' = [pc EXCEPT ![r] = "idle"]
    /\ countries_data' = [countries_data EXCEPT ![r] = <<>>]
    /\ exchange_rates' = [exchange_rates EXCEPT ![r] = NoRates]
    /\ idx' = [idx EXCEPT ![r] = 0]
    /\ payload' = [payload EXCEPT ![r] = PyNone]
    /\ now' = [now EXCEPT ![r] = 0]
    /\ existing' = [existing EXCEPT ![r] = 0]
    /\ saved' = [saved EXCEPT ![r] = <<>>]
    /\ exc' = [exc EXCEPT ![r] = ""]
    /\ before' = [before EXCEPT ![r] = {}]
    /\ UNCHANGED <<rows, nextId, collation, clock, image>>

\* DELETE /countries/{name}: crud.delete_country; a miss changes nothing (404).
delete_country(name) ==
    /\ Matching(PyStr(name)) # {}
    /\ \E c \in Matching(PyStr(name)) : rows' = rows \ {c}
    /\ UNCHANGED <<nextId, collation, clock, image, pc, locals>>

\* No job is between its start and its close.
Quiet == \A r \in Runs : pc[r] = "idle"

\* Refreshes and deletes one at a time: a refresh starts, and a delete is
\* served, only when no job is running.
SeqRefresh(r) == Quiet /\ refresh_countries(r)

SeqDelete(name) == Quiet /\ delete_country(name)

NextSeq ==
    \/ \E r \in Runs :
          SeqRefresh(r) \/ Fetch(r) \/ Process(r) \/ Upsert(r) \/ Render(r) \/ Close(r)
    \/ \E name \in DeleteNames : SeqDelete(name)

SpecSeq == Init /\ [][NextSeq]_vars

\* Refreshes run concurrently, with each other and with deletes.
FetchConc(r) == FetchOf(r, ConcLists, ConcTables)

NextConc ==
    \/ \E r \in Runs :
          \/ refresh_countries(r) \/ FetchConc(r) \/ Process(r)
          \/ Upsert(r) \/ Render(r) \/ Close(r)
    \/ \E name \in DeleteNames : delete_country(name)

SpecConc == Init /\ [][NextConc]_vars

(* ============================ properties ============================== *)
FetchErrors == {"fetch_countries", "fetch_exchange_rates"}

\* Names equal ignoring case.
SameName(a, b) == Lower(a.v) = Lower(b.v)

\* A record the pipeline must not ingest: no name, an empty name, no population.
Unusable(item) ==
    item.name = PyNone \/ item.name = PyStr("") \/ item.population = PyNone

\* The run r has gone past the record before idx, and that record was ingested.
JustUpserted(r) ==
    /\ pc[r] \in {"loop", "done"}
    /\ idx[r] > 1
    /\ ~Unusable(countries_data[r][idx[r] - 1])

LastItem(r) == countries_data[r][idx[r] - 1]

LastRow(r) == RowOf(saved[r][Len(saved[r])])

\* C1: a run whose fetch_countries or fetch_exchange_rates failed has aborted
\* with the table exactly as it was when the run began, and has written nothing.
C1_FetchFailureModifiesNothing ==
    \A r \in Runs :
        (pc[r] = "failed" /\ exc[r] \in FetchErrors) =>
            (rows = before[r] /\ saved[r] = <<>> /\ countries_data[r] = <<>>)

\* C1 witness: a fetch failed on a table a former refresh had filled.
C1_Witness ==
    \E r \in Runs : pc[r] = "failed" /\ exc[r] \in FetchErrors /\ rows # {}

\* C3: with refreshes and deletes one at a time, no two rows have names equal
\* ignoring case; a row the run found keeps its id however the name is cased;
\* and the row last upserted holds the fields of its payload.
C3_UpsertUpdatesSameRow ==
    /\ \A c \in rows, d \in rows : SameName(c.name, d.name) => c = d
    /\ \A r \in Runs : \A old \in before[r], c \in rows :
           SameName(old.name, c.name) => c.id = old.id
    /\ \A r \in Runs :
           JustUpserted(r) =>
               /\ SameName(LastRow(r).name, LastItem(r).name)
               /\ LastRow(r) = RowFrom(LastRow(r).id, payload[r], now[r])

\* C3 witness: "France" was stored, and a later refresh naming "france" has
\* rewritten that row.
C3_Witness ==
    \E r \in Runs : \E old \in before[r] :
        /\ JustUpserted(r)
        /\ old.name = PyStr("France")
        /\ LastRow(r).name = PyStr("france")
        /\ LastRow(r).id = old.id
        /\ LastRow(r).population # old.population
        /\ Cardinality(rows) = 1

\* C4 (as claimed): a run whose fetches succeeded goes through the whole list
\* and renders, whatever a record made the loop body raise.
C4_RecordFailureSkipsOnlyThatRecord ==
    \A r \in Runs :
        (pc[r] \in {"done", "failed"} /\ exc[r] \notin FetchErrors) =>
            (pc[r] = "done" /\ idx[r] = Len(countries_data[r]) + 1)

\* C8: the rows a run has upserted are as many as the usable records it has
\* gone past (a record with population 0 and a name counts, an unusable one
\* never does), and every row the run created or changed bears the name of a
\* usable record of its list; a record about to be upserted is usable.
C8_UnusableRecordsNeverWritten ==
    \A r \in Runs :
        /\ pc[r] \in {"loop", "done"} =>
               Len(saved[r]) =
                   Cardinality({ i \in 1..(idx[r] - 1) : ~Unusable(countries_data[r][i]) })
        /\ pc[r] = "upsert" => ~Unusable(countries_data[r][idx[r]])
        /\ pc[r] \notin {"idle", "queued"} =>
               \A c \in rows \ before[r] :
                   \E i \in 1..Len(countries_data[r]) :
                       /\ ~Unusable(countries_data[r][i])
                       /\ countries_data[r][i].name = c.name

\* C8 witness: a run went past an unusable record without writing, and then
\* upserted a record with population 0.
C8_Witness ==
    \E r \in Runs :
        /\ JustUpserted(r)
        /\ idx[r] = 3
        /\ Unusable(countries_data[r][1])
        /\ LastItem(r).population = PyInt(0)
        /\ LastRow(r).population = PyInt(0)
        /\ Len(saved[r]) = 1

\* The first entry of the record's currencies list, when it is a currency
\* object with a code.
HasCode(item) ==
    /\ item.currencies.t = "list"
    /\ item.currencies.v # <<>>
    /\ item.currencies.v[1].t = "dict"
    /\ item.currencies.v[1].code.t = "str"

CodeOf(item) == item.currencies.v[1].code

\* The currencies field is absent, not a list, empty, or its first entry has no code.
NoCode(item) ==
    \/ item.currencies = PyNone
    \/ item.currencies.t # "list"
    \/ item.currencies = PyList(<<>>)
    \/ item.currencies.v[1] = PyCurrency(PyNone)

\* x = (population * m) / rate for some integer m of [1000, 2000].
IsEstimate(x, population, rate) ==
    /\ x.t = "float"
    /\ \E m \in MinMultiplier..MaxMultiplier :
           x.num * rate.num = population * m * rate.den * x.den

\* C5 (as claimed): the row upserted for a record whose code has rate r in the
\* table has exchange_rate = r and an estimated_gdp that is strictly positive
\* and is population * m / r for some m of [1000, 2000].
C5_KnownRateGdpStrictlyPositive ==
    \A r \in Runs :
        (JustUpserted(r) /\ HasCode(LastItem(r))
            /\ CodeOf(LastItem(r)).v \in DOMAIN exchange_rates[r]) =>
            LET rate == FloatOf(exchange_rates[r][CodeOf(LastItem(r)).v])
                row == LastRow(r)
            IN /\ row.exchange_rate.t = "float"
               /\ FloatEq(row.exchange_rate, rate)
               /\ IsEstimate(row.estimated_gdp, LastItem(r).population.v, rate)
               /\ row.estimated_gdp.num * row.estimated_gdp.den > 0

\* C5 (amended): the same row has exchange_rate = r and an estimated_gdp that
\* is population * m / r for some m of [1000, 2000]: strictly positive when
\* the population is positive, and 0 when the population is 0.
C5_KnownRateGdp ==
    \A r \in Runs :
        (JustUpserted(r) /\ HasCode(LastItem(r))
            /\ CodeOf(LastItem(r)).v \in DOMAIN exchange_rates[r]) =>
            LET rate == FloatOf(exchange_rates[r][CodeOf(LastItem(r)).v])
                row == LastRow(r)
                population == LastItem(r).population.v
            IN /\ rate.num * rate.den > 0
               /\ row.exchange_rate.t = "float"
               /\ FloatEq(row.exchange_rate, rate)
               /\ row.currency_code = CodeOf(LastItem(r))
               /\ IsEstimate(row.estimated_gdp, population, rate)
               /\ population > 0 => row.estimated_gdp.num * row.estimated_gdp.den > 0
               /\ population = 0 => row.estimated_gdp.num = 0

\* C5 witness: a record with population 3 and a known rate was upserted, with
\* an estimated GDP above 0.
C5_Witness ==
    \E r \in Runs :
        /\ JustUpserted(r)
        /\ HasCode(LastItem(r))
        /\ CodeOf(LastItem(r)).v \in DOMAIN exchange_rates[r]
        /\ LastItem(r).population = PyInt(3)
        /\ LastRow(r).estimated_gdp.t = "float"
        /\ LastRow(r).estimated_gdp.num > 0

\* C6: the row upserted for a record with no currency code has currency_code
\* and exchange_rate null and estimated_gdp exactly 0, whatever the rates are.
C6_NoCurrencyCodeGdpZero ==
    \A r \in Runs :
        (JustUpserted(r) /\ NoCode(LastItem(r))) =>
            /\ LastRow(r).currency_code = PyNone
            /\ LastRow(r).exchange_rate = PyNone
            /\ LastRow(r).estimated_gdp = PyFloat(0, 1)

\* C6 witness: a record whose first currency entry has no code was upserted
\* while the rate table had a rate for EUR.
C6_Witness ==
    \E r \in Runs :
        /\ JustUpserted(r)
        /\ LastItem(r).currencies = PyList(<<PyCurrency(PyNone)>>)
        /\ "EUR" \in DOMAIN exchange_rates[r]
        /\ LastRow(r).estimated_gdp = PyFloat(0, 1)

\* C7: the row upserted for a record whose code is no key of the rate table
\* keeps the code and has exchange_rate and estimated_gdp null, also when the
\* row held a rate and a GDP before.
C7_UnknownRateGdpNull ==
    \A r \in Runs :
        (JustUpserted(r) /\ HasCode(LastItem(r))
            /\ CodeOf(LastItem(r)).v \notin DOMAIN exchange_rates[r]) =>
            /\ LastRow(r).currency_code = CodeOf(LastItem(r))
            /\ LastRow(r).exchange_rate = PyNone
            /\ LastRow(r).estimated_gdp = PyNone

\* C7 witness: the row had a rate and a GDP from an earlier refresh, and the
\* upsert of a record with an unknown code has made both null.
C7_Witness ==
    \E r \in Runs : \E old \in before[r] :
        /\ JustUpserted(r)
        /\ HasCode(LastItem(r))
        /\ CodeOf(LastItem(r)).v \notin DOMAIN exchange_rates[r]
        /\ old.id = LastRow(r).id
        /\ old.exchange_rate # PyNone
        /\ old.estimated_gdp # PyNone
        /\ LastRow(r).estimated_gdp = PyNone

\* C9 (as claimed): a finished run has gone through its whole list, and the
\* image it rendered counts each row it upserted once and ranks no row twice.
C9_ImageFromRowsTouchedOnce ==
    \A r \in Runs :
        pc[r] = "done" =>
            LET touched == { saved[r][i] : i \in 1..Len(saved[r]) } IN
            /\ idx[r] = Len(countries_data[r]) + 1
            /\ image.exists
            /\ image.total = Cardinality(touched)
            /\ Len(image.top) <= Cardinality(touched)

\* A run removes no row and leaves the rows its list does not name as they
\* were; the row last upserted carries the time of that upsert, later than
\* every time stored before the run.
C10_RunKeepsOtherRows ==
    \A r \in Runs :
        /\ pc[r] \notin {"idle", "queued"} =>
               \A old \in before[r] :
                   /\ \E c \in rows : c.id = old.id
                   /\ (\A i \in 1..Len(countries_data[r]) :
                          countries_data[r][i].name.t = "str" =>
                              ~SameName(countries_data[r][i].name, old.name))
                        => old \in rows
        /\ JustUpserted(r) =>
               /\ LastRow(r).last_refreshed_at = now[r]
               /\ \A old \in before[r] : old.last_refreshed_at < now[r]

\* A row leaves the table only in a step that is a delete of its name.
C10_RowLeavesOnlyByDelete ==
    \A c \in rows :
        (\A d \in rows' : d.id # c.id) =>
            \E name \in DeleteNames :
                SameName(PyStr(name), c.name) /\ SeqDelete(name)

\* C10: over refreshes and deletes one at a time, a run removes no row and
\* leaves the rows its list does not name unchanged, each row it upserts gets
\* last_refreshed_at set to the time of that upsert, and a row disappears
\* only through a delete of its name.
C10_RowsOnlyLeaveByDelete ==
    [](C10_RunKeepsOtherRows) /\ [][C10_RowLeavesOnlyByDelete]_vars

\* C10 witness: a run updated one stored row, at a later time than before,
\* and left another stored row, which its list does not name, as it was.
C10_Witness ==
    \E r \in Runs : \E old \in before[r], other \in before[r] :
        /\ JustUpserted(r)
        /\ old.id = LastRow(r).id
        /\ LastRow(r).last_refreshed_at > old.last_refreshed_at
        /\ other.id # old.id
        /\ other \in rows

\* C2 (as claimed): the table never holds two rows whose names are equal
\* ignoring case, however refreshes interleave.
C2_NoTwoRowsSameNameIgnoringCase ==
    \A c \in rows, d \in rows : SameName(c.name, d.name) => c = d
====
